---- MODULE Spec2Model ----
(***************************************************************************)
(* A model of read.rs: the LookaheadBuffer of src/read/buffer.rs over the  *)
(* SimulatedBuffer byte source of its tests, and the scanning runtime of   *)
(* src/read/rt.rs (digit scanning, string capture, pad skipping).          *)
(*                                                                         *)
(* Bytes are integers 0..255.  Offsets are 0-based as in the source; the   *)
(* helpers slice_from / slice_to / slice turn them into 1-based SubSeq.    *)
(* Every operation is a function from a state record S (the fields of the  *)
(* source and of the LookaheadBuffer, plus history fields) to a result     *)
(* record; an action applies one whole operation and stores the result.    *)
(***************************************************************************)
EXTENDS Integers, Sequences, FiniteSets, TLC

\* ---- bounds of the model ----
MaxLen == 3
MaxChunks == 3
MaxAmt == 3
MaxSaved == 6
MaxChars == 3
ScanChunks == 2
MaxIter == 12
AllLen == 2

FmtLen == 5

SpecLen == 4

PosLen == 4

VARIABLES calls, index, pos, saved, savedpos, savederr, consumed, srcerr,
          refill, srcview, overrun, last, fmt, parsed

vars == <<calls, index, pos, saved, savedpos, savederr, consumed, srcerr,
          refill, srcview, overrun, last, fmt, parsed>>

\* ---- slices (std::slice) ----
slice_from(s, n) == SubSeq(s, n + 1, Len(s))

slice_to(s, n) == SubSeq(s, 1, n)

slice(s, a, b) == SubSeq(s, a + 1, b)

\* Bind(v, K) is K(v): names the result of a call once for the steps after it.
Bind(v, K(_)) == K(v)

IsPrefix(p, s) == Len(p) <= Len(s) /\ SubSeq(s, 1, Len(p)) = p

RECURSIVE Concat(_)
Concat(cs) == IF cs = <<>> THEN <<>> ELSE Head(cs) \o Concat(Tail(cs))

\* The byte stream the source delivers: the concatenation of its chunks.
Stream == Concat(calls)

\* Every way of cutting s into at most k chunks (empty chunks included, as in
\* the tests' &[&[1,2,3], &[], &[4]]).
RECURSIVE Chunkings(_, _)
Chunkings(s, k) ==
    (IF s = <<>> THEN {<<>>} ELSE {})
    \cup (IF k = 0 THEN {}
          ELSE UNION { { <<SubSeq(s, 1, j)>> \o r :
                           r \in Chunkings(SubSeq(s, j + 1, Len(s)), k - 1) } :
                       j \in 0..Len(s) })

\* ---- the state record the operations work on ----
St == [index |-> index, pos |-> pos, saved |-> saved, savedpos |-> savedpos,
       savederr |-> savederr, consumed |-> consumed, srcerr |-> srcerr,
       refill |-> refill, srcview |-> srcview, overrun |-> overrun,
       panic |-> FALSE]

\* ---- SimulatedBuffer (the byte source) ----
\* fill: steps to the next chunk when the current one is used up (one step
\* only), then returns the rest of the current chunk, or the EndOfFile error.
\* History: srcerr, fill has returned the error; refill, fill was called again
\* after it had; srcview, the bytes of the view fill returned last that no
\* consume has taken yet; overrun, a consume was asked for more than that.
\* after it had.
Sim_fill(S) ==
    LET adv == S.index < Len(calls) /\ S.pos = Len(calls[S.index + 1])
        i2  == IF adv THEN S.index + 1 ELSE S.index
        p2  == IF adv THEN 0 ELSE S.pos
    IN  IF i2 < Len(calls)
        THEN [st |-> [S EXCEPT !.index = i2, !.pos = p2,
                               !.srcview = Len(calls[i2 + 1]) - p2,
                               !.refill = @ \/ S.srcerr],
              ok |-> TRUE, buf |-> slice_from(calls[i2 + 1], p2)]
        ELSE [st |-> [S EXCEPT !.index = i2, !.pos = p2, !.srcerr = TRUE,
                               !.srcview = 0,
                               !.refill = @ \/ S.srcerr],
              ok |-> FALSE, buf |-> <<>>]

\* consume: pos += amt; the assertion (and the index into calls) fail the task.
Sim_consume(S, amt) ==
    IF S.index < Len(calls) /\ S.pos + amt <= Len(calls[S.index + 1])
    THEN [S EXCEPT !.pos = @ + amt,
                   !.overrun = @ \/ amt > S.srcview,
                   !.srcview = IF amt > @ THEN 0 ELSE @ - amt]
    ELSE [S EXCEPT !.panic = TRUE, !.overrun = @ \/ amt > S.srcview]

\* ---- LookaheadBuffer ----
\* The loop of fill_request: append the source's view to saved; leave the loop
\* as soon as saved is long enough (before the consume), else consume the view
\* from the source and go on; an error from the source is recorded.
RECURSIVE fill_loop(_, _)
fill_loop(S, minlen) ==
    Bind(Sim_fill(S), LAMBDA f :
    IF f.ok
    THEN IF Len(f.st.saved) + Len(f.buf) >= minlen
         THEN [f.st EXCEPT !.saved = @ \o f.buf]
         ELSE fill_loop(Sim_consume([f.st EXCEPT !.saved = @ \o f.buf],
                                    Len(f.buf)), minlen)
    ELSE [f.st EXCEPT !.savederr = TRUE])

\* A fill_tail that asks the source once instead of looping.
fill_tail_once(S, amt) ==
    Bind(IF Len(S.saved) < S.savedpos + amt /\ ~S.savederr
         THEN Bind(Sim_fill(S), LAMBDA f :
                   IF f.ok THEN [f.st EXCEPT !.saved = @ \o f.buf]
                   ELSE [f.st EXCEPT !.savederr = TRUE])
         ELSE S,
         LAMBDA S1 : [st |-> S1, ok |-> TRUE,
                      buf |-> slice_from(S1.saved, S1.savedpos)])

\* A fill_tail that asks the source whenever no error is recorded, also when
\* saved already holds enough.
fill_tail_always_fill(S, amt) ==
    Bind(IF ~S.savederr THEN fill_loop(S, S.savedpos + amt) ELSE S,
         LAMBDA S1 : [st |-> S1, ok |-> TRUE,
                      buf |-> slice_from(S1.saved, S1.savedpos)])

\* A fill_tail that drops what saved holds before it fills.
fill_tail_discarding(S, amt) ==
    Bind(IF Len(S.saved) < S.savedpos + amt /\ ~S.savederr
         THEN fill_loop([S EXCEPT !.saved = <<>>, !.savedpos = 0], amt)
         ELSE S,
         LAMBDA S1 : [st |-> S1, ok |-> TRUE,
                      buf |-> slice_from(S1.saved, S1.savedpos)])

\* The tail of fill_request (from "let minlen"): fill only when saved is not
\* enough and no error is recorded; return the unread part of saved.
fill_tail(S, amt) ==
    Bind(IF Len(S.saved) < S.savedpos + amt /\ ~S.savederr
         THEN fill_loop(S, S.savedpos + amt) ELSE S,
         LAMBDA S1 : [st |-> S1, ok |-> TRUE,
                      buf |-> slice_from(S1.saved, S1.savedpos)])

\* A fill_front whose fast path consumes from the source the view it returns.
fill_front_consuming(S, amt) ==
    IF S.savederr
    THEN [st |-> [S EXCEPT !.savederr = FALSE], ok |-> FALSE, buf |-> <<>>]
    ELSE Bind(Sim_fill(S), LAMBDA f :
         IF ~f.ok THEN [st |-> f.st, ok |-> FALSE, buf |-> <<>>]
         ELSE IF Len(f.buf) >= amt
         THEN [st |-> Sim_consume(f.st, Len(f.buf)), ok |-> TRUE, buf |-> f.buf]
         ELSE fill_tail(Sim_consume([f.st EXCEPT !.saved = f.buf,
                                                 !.savedpos = 0],
                                    Len(f.buf)), amt))

\* A fill_front that gives the recorded error but leaves it in the slot.
fill_front_keep_error(S, amt) ==
    IF S.savederr
    THEN [st |-> S, ok |-> FALSE, buf |-> <<>>]
    ELSE Bind(Sim_fill(S), LAMBDA f :
         IF ~f.ok THEN [st |-> f.st, ok |-> FALSE, buf |-> <<>>]
         ELSE IF Len(f.buf) >= amt
         THEN Sim_fill(f.st)
         ELSE fill_tail(Sim_consume([f.st EXCEPT !.saved = f.buf,
                                                 !.savedpos = 0],
                                    Len(f.buf)), amt))

\* A fill_front without the fast path: the source's view is always copied.
fill_front_always_copy(S, amt) ==
    IF S.savederr
    THEN [st |-> [S EXCEPT !.savederr = FALSE], ok |-> FALSE, buf |-> <<>>]
    ELSE Bind(Sim_fill(S), LAMBDA f :
         IF ~f.ok THEN [st |-> f.st, ok |-> FALSE, buf |-> <<>>]
         ELSE fill_tail(Sim_consume([f.st EXCEPT !.saved = f.buf,
                                                 !.savedpos = 0],
                                    Len(f.buf)), amt))

\* The first branch of fill_request (savedpos == saved.len()): give the
\* recorded error if any; else return the source's own view when it is long
\* enough (a second fill), else start saved afresh with it and consume it.
fill_front(S, amt) ==
    IF S.savederr
    THEN [st |-> [S EXCEPT !.savederr = FALSE], ok |-> FALSE, buf |-> <<>>]
    ELSE Bind(Sim_fill(S), LAMBDA f :
         IF ~f.ok THEN [st |-> f.st, ok |-> FALSE, buf |-> <<>>]
         ELSE IF Len(f.buf) >= amt
         THEN Sim_fill(f.st)
         ELSE fill_tail(Sim_consume([f.st EXCEPT !.saved = f.buf,
                                                 !.savedpos = 0],
                                    Len(f.buf)), amt))

\* A fill_request that gives the recorded error as soon as there is one.
fill_request_eager_error(S, amt) ==
    IF S.savederr
    THEN [st |-> [S EXCEPT !.savederr = FALSE], ok |-> FALSE, buf |-> <<>>]
    ELSE IF S.savedpos = Len(S.saved) THEN fill_front(S, amt)
    ELSE fill_tail(S, amt)

\* A fill_request that shifts the unread part of saved to its front first (the
\* amortisation the source leaves commented out).
fill_request_compacting(S, amt) ==
    IF S.savedpos = Len(S.saved) THEN fill_front(S, amt)
    ELSE fill_tail([S EXCEPT !.saved = slice_from(S.saved, S.savedpos),
                             !.savedpos = 0], amt)

fill_request(S, amt) ==
    IF S.savedpos = Len(S.saved) THEN fill_front(S, amt)
    ELSE fill_tail(S, amt)

\* The bytes a consume(amt) skips: taken from the source's chunk when the call
\* is forwarded, from saved otherwise (history only).
Skipped(S, amt) ==
    IF S.savedpos = Len(S.saved)
    THEN IF S.index < Len(calls)
         THEN slice(calls[S.index + 1], S.pos,
                    IF S.pos + amt <= Len(calls[S.index + 1])
                    THEN S.pos + amt ELSE Len(calls[S.index + 1]))
         ELSE <<>>
    ELSE slice(S.saved, S.savedpos,
               IF S.savedpos + amt <= Len(S.saved)
               THEN S.savedpos + amt ELSE Len(S.saved))

\* A consume that is always forwarded to the source, also while saved holds
\* unread bytes.
consume_always_forward(S, amt) ==
    Sim_consume([S EXCEPT !.consumed = @ \o Skipped(S, amt)], amt)

\* A consume that always moves the cursor, never forwarding to the source.
consume_cursor_only(S, amt) ==
    [S EXCEPT !.consumed = @ \o Skipped(S, amt),
              !.savedpos = @ + amt,
              !.panic = (S.savedpos + amt > Len(S.saved))]

consume(S, amt) ==
    IF S.savedpos = Len(S.saved)
    THEN Sim_consume([S EXCEPT !.consumed = @ \o Skipped(S, amt)], amt)
    ELSE [S EXCEPT !.consumed = @ \o Skipped(S, amt),
                   !.savedpos = @ + amt,
                   !.panic = (S.savedpos + amt > Len(S.saved))]

\* ---- UTF-8 (std::str, std::char) ----
\* str::utf8_char_width: the encoded width a lead byte announces, 0 for a
\* byte that cannot start a codepoint.
utf8_char_width(b) ==
    IF b < 128 THEN 1
    ELSE IF b < 194 THEN 0
    ELSE IF b < 224 THEN 2
    ELSE IF b < 240 THEN 3
    ELSE IF b < 245 THEN 4
    ELSE 0

IsCont(b) == 128 <= b /\ b <= 191

\* Whether b starts with one well-formed codepoint of width w.
WellFormedAt(b, w) ==
    /\ w >= 1 /\ w <= Len(b)
    /\ \A k \in 2..w : IsCont(b[k])
    /\ (b[1] = 224 => b[2] >= 160)
    /\ (b[1] = 237 => b[2] <= 159)
    /\ (b[1] = 240 => b[2] >= 144)
    /\ (b[1] = 244 => b[2] <= 143)

\* str::is_utf8 (what from_utf8 checks).
RECURSIVE is_utf8(_)
is_utf8(b) ==
    IF b = <<>> THEN TRUE
    ELSE /\ WellFormedAt(b, utf8_char_width(b[1]))
         /\ is_utf8(SubSeq(b, utf8_char_width(b[1]) + 1, Len(b)))

\* The codepoint at the head of well-formed text (char_at(0)).
char_at0(b) ==
    LET w == utf8_char_width(b[1]) IN
    IF w = 1 THEN b[1]
    ELSE IF w = 2 THEN (b[1] - 192) * 64 + (b[2] - 128)
    ELSE IF w = 3 THEN (b[1] - 224) * 4096 + (b[2] - 128) * 64 + (b[3] - 128)
    ELSE (b[1] - 240) * 262144 + (b[2] - 128) * 4096 + (b[3] - 128) * 64
         + (b[4] - 128)

\* char::is_whitespace
is_whitespace(c) ==
    \/ c = 32
    \/ (9 <= c /\ c <= 13)
    \/ c \in {133, 160, 5760, 8232, 8233, 8239, 8287, 12288}
    \/ (8192 <= c /\ c <= 8202)

\* ---- pad skipping (LookaheadBuffer) ----
\* Offset of the first byte of buf, from offset k on, that is not in P;
\* Len(buf) when there is none.
RECURSIVE first_non_pad(_, _, _)
first_non_pad(buf, k, P) ==
    IF k >= Len(buf) THEN Len(buf)
    ELSE IF buf[k + 1] \notin P THEN k
    ELSE first_non_pad(buf, k + 1, P)

\* read_pad_byte_if, is_pad given as the set P of pad bytes.  n counts the
\* bytes consumed so far; fuel bounds the iterations the model follows.
RECURSIVE read_pad_byte_loop(_, _, _, _)
read_pad_byte_loop(S, P, n, fuel) ==
    IF fuel = 0 THEN [st |-> S, status |-> "Hang", n |-> n]
    ELSE
    Bind(fill_request(S, 1), LAMBDA r :
    IF ~r.ok THEN [st |-> r.st, status |-> "Err", n |-> n]
    ELSE IF r.buf = <<>> THEN [st |-> r.st, status |-> "Ok", n |-> n]
    ELSE
    Bind(first_non_pad(r.buf, 0, P), LAMBDA i :
    Bind(consume(r.st, i), LAMBDA S1 :
    IF S1.panic THEN [st |-> S1, status |-> "Panic", n |-> n + i]
    ELSE IF i < Len(r.buf) THEN [st |-> S1, status |-> "Ok", n |-> n + i]
    ELSE read_pad_byte_loop(S1, P, n + i, fuel - 1))))

read_pad_byte_if(S, P) == read_pad_byte_loop(S, P, 0, MaxIter)

\* char::encode_utf8
encode_utf8(c) ==
    IF c < 128 THEN <<c>>
    ELSE IF c < 2048 THEN <<192 + (c \div 64), 128 + (c % 64)>>
    ELSE IF c < 65536
    THEN <<224 + (c \div 4096), 128 + ((c \div 64) % 64), 128 + (c % 64)>>
    ELSE <<240 + (c \div 262144), 128 + ((c \div 4096) % 64),
           128 + ((c \div 64) % 64), 128 + (c % 64)>>

\* Offset of the first byte of buf[0..upto) that differs from the repeated
\* encoding padbuf; upto when there is none.
RECURSIVE first_pad_mismatch(_, _, _, _)
first_pad_mismatch(buf, padbuf, k, upto) ==
    IF k >= upto THEN upto
    ELSE IF padbuf[(k % Len(padbuf)) + 1] # buf[k + 1] THEN k
    ELSE first_pad_mismatch(buf, padbuf, k + 1, upto)

RECURSIVE read_pad_char_loop(_, _, _, _)
read_pad_char_loop(S, padbuf, n, fuel) ==
    IF fuel = 0 THEN [st |-> S, status |-> "Hang", n |-> n]
    ELSE
    Bind(Len(padbuf), LAMBDA padlen :
    Bind(fill_request(S, padlen), LAMBDA r :
    IF ~r.ok THEN [st |-> r.st, status |-> "Err", n |-> n]
    ELSE IF Len(r.buf) < padlen THEN [st |-> r.st, status |-> "Ok", n |-> n]
    ELSE
    Bind((Len(r.buf) \div padlen) * padlen, LAMBDA upto :
    Bind(first_pad_mismatch(r.buf, padbuf, 0, upto), LAMBDA i :
    Bind(IF i < upto THEN i - (i % padlen) ELSE upto, LAMBDA amt :
    Bind(consume(r.st, amt), LAMBDA S1 :
    IF S1.panic
    THEN [st |-> S1, status |-> "Panic", n |-> n + (amt \div padlen)]
    ELSE IF i < upto
    THEN [st |-> S1, status |-> "Ok", n |-> n + (amt \div padlen)]
    ELSE read_pad_char_loop(S1, padbuf, n + (amt \div padlen),
                            fuel - 1)))))))

read_pad_char(S, pad) ==
    IF pad < 128 THEN read_pad_byte_if(S, {pad})
    ELSE read_pad_char_loop(S, encode_utf8(pad), 0, MaxIter)

\* ---- Scanner (rt.rs) ----
\* A scanner sc is [flags, fill, align]; fill = -1 stands for None.  The
\* flag bits are the Flags enum's discriminants.
FlagSignPlus == 0
FlagSignMinus == 1
FlagAlternate == 2

HasFlag(sc, bit) == (sc.flags \div (2 ^ bit)) % 2 = 1

skip_pad(S, sc) ==
    IF sc.fill >= 0 THEN read_pad_char(S, sc.fill)
    ELSE read_pad_byte_if(S, {32, 9, 13, 10})

skip_prepad(S, sc) ==
    IF sc.align \in {"AlignLeft", "AlignCenter"} THEN skip_pad(S, sc)
    ELSE [st |-> S, status |-> "Ok", n |-> 0]

skip_postpad(S, sc) ==
    IF sc.align \in {"AlignRight", "AlignCenter"} THEN skip_pad(S, sc)
    ELSE [st |-> S, status |-> "Ok", n |-> 0]

\* ---- signed/unsigned digit scanning (rt.rs, mod impls) ----
\* enum State, with the discriminants of the source; a state accepts iff its
\* discriminant is odd.
StateCode(state) ==
    CASE state = "ExpectSignOrDigit" -> 0
      [] state = "ExpectSign"        -> 2
      [] state = "ExpectDigit"       -> 4
      [] state = "ExpectMoreDigits"  -> 6 + 1

IsDigit(ch) == 48 <= ch /\ ch <= 57

\* The match on (state, ch); "halt" is the arm (_, _).
Transition(state, ch) ==
    CASE state = "ExpectSignOrDigit" /\ ch = 43    -> "ExpectDigit"
      [] state = "ExpectSignOrDigit" /\ ch = 45    -> "ExpectDigit"
      [] state = "ExpectSignOrDigit" /\ IsDigit(ch) -> "ExpectMoreDigits"
      [] state = "ExpectDigit" /\ IsDigit(ch)       -> "ExpectMoreDigits"
      [] state = "ExpectMoreDigits" /\ IsDigit(ch)  -> "ExpectMoreDigits"
      [] OTHER -> "halt"

\* The for loop over buf.slice_from(i): runs the transitions from offset k;
\* halted with the offset of the byte that has no transition, or the state
\* after the last byte.
RECURSIVE scan_bytes(_, _, _)
scan_bytes(state, buf, k) ==
    IF k >= Len(buf) THEN [state |-> state, halted |-> FALSE, at |-> k]
    ELSE Bind(Transition(state, buf[k + 1]), LAMBDA t :
         IF t = "halt" THEN [state |-> state, halted |-> TRUE, at |-> k]
         ELSE scan_bytes(t, buf, k + 1))

\* The 'reading loop of scan: one more byte of lookahead per iteration.
RECURSIVE scan_loop(_, _, _, _)
scan_loop(S, i, state, fuel) ==
    IF fuel = 0 THEN [st |-> S, status |-> "Hang", i |-> i, state |-> state]
    ELSE
    Bind(fill_request(S, i + 1), LAMBDA r :
    IF ~r.ok THEN [st |-> r.st, status |-> "Err", i |-> i, state |-> state]
    ELSE IF Len(r.buf) <= i
    THEN [st |-> r.st, status |-> "Ok", i |-> i, state |-> state]
    ELSE
    Bind(scan_bytes(state, r.buf, i), LAMBDA w :
    IF w.halted
    THEN [st |-> r.st, status |-> "Ok", i |-> w.at, state |-> w.state]
    ELSE scan_loop(r.st, Len(r.buf), w.state, fuel - 1)))

\* fn scan: the matched span, "NoMatch" when the final state does not accept.
InitialState(mandatory_sign) ==
    IF mandatory_sign THEN "ExpectSign" ELSE "ExpectSignOrDigit"

scan(S, mandatory_sign) ==
    Bind(scan_loop(S, 0, InitialState(mandatory_sign), MaxIter), LAMBDA l :
    IF l.status # "Ok" THEN [st |-> l.st, status |-> l.status, buf |-> <<>>]
    ELSE IF StateCode(l.state) % 2 = 0
    THEN [st |-> l.st, status |-> "NoMatch", buf |-> <<>>]
    ELSE
    Bind(fill_request(l.st, l.i), LAMBDA r :
    IF ~r.ok THEN [st |-> r.st, status |-> "Err", buf |-> <<>>]
    ELSE IF Len(r.buf) < l.i
    THEN [st |-> r.st, status |-> "Panic", buf |-> <<>>]
    ELSE [st |-> r.st, status |-> "Ok", buf |-> slice_to(r.buf, l.i)]))

\* from_str for the integer types: an optional sign ('-' only for a signed
\* type), one or more digits, the value within the type's range.
TypeMin(ty) == IF ty = "i8" THEN -128 ELSE 0

TypeMax(ty) == IF ty = "i8" THEN 127 ELSE 255

RECURSIVE DigitsValue(_, _)
DigitsValue(ds, acc) ==
    IF ds = <<>> THEN acc
    ELSE DigitsValue(Tail(ds), acc * 10 + (Head(ds) - 48))

IsNeg(text) == text # <<>> /\ text[1] = 45

Unsigned(text) ==
    IF text # <<>> /\ text[1] \in {43, 45} THEN Tail(text) ELSE text

from_str(text, ty) ==
    Bind(Unsigned(text), LAMBDA ds :
    IF ds = <<>> \/ (\E k \in 1..Len(ds) : ~IsDigit(ds[k]))
       \/ (IsNeg(text) /\ ty # "i8")
    THEN [some |-> FALSE, v |-> 0]
    ELSE
    Bind(IF IsNeg(text) THEN 0 - DigitsValue(ds, 0) ELSE DigitsValue(ds, 0),
         LAMBDA v :
    IF v < TypeMin(ty) \/ v > TypeMax(ty) THEN [some |-> FALSE, v |-> 0]
    ELSE [some |-> TRUE, v |-> v]))

\* scan_signed_digits::<T>: prepad, scan, from_str, consume, postpad.
scan_signed_digits(S, sc, ty) ==
    Bind(skip_prepad(S, sc), LAMBDA p :
    IF p.status # "Ok"
    THEN [st |-> p.st, status |-> p.status, val |-> 0, buf |-> <<>>]
    ELSE
    Bind(scan(p.st, HasFlag(sc, FlagSignPlus)), LAMBDA m :
    IF m.status # "Ok"
    THEN [st |-> m.st, status |-> m.status, val |-> 0, buf |-> <<>>]
    ELSE
    Bind(from_str(m.buf, ty), LAMBDA result :
    Bind(consume(m.st, Len(m.buf)), LAMBDA S1 :
    IF S1.panic THEN [st |-> S1, status |-> "Panic", val |-> 0, buf |-> m.buf]
    ELSE
    Bind(skip_postpad(S1, sc), LAMBDA q :
    IF q.status # "Ok"
    THEN [st |-> q.st, status |-> q.status, val |-> 0, buf |-> m.buf]
    ELSE [st |-> q.st, status |-> IF result.some THEN "Ok" ELSE "NoMatch",
          val |-> result.v, buf |-> m.buf])))))

\* ---- peek_byte (LookaheadBuffer) ----
peek_byte(S) ==
    Bind(fill_request(S, 1), LAMBDA r :
    IF ~r.ok THEN [st |-> r.st, status |-> "Err", val |-> 0]
    ELSE IF r.buf = <<>> THEN [st |-> r.st, status |-> "NoMatch", val |-> 0]
    ELSE [st |-> r.st, status |-> "Ok", val |-> r.buf[1]])

\* ---- peek_char (LookaheadBuffer) ----
peek_char(S) ==
    Bind(fill_request(S, 1), LAMBDA r :
    IF ~r.ok THEN [st |-> r.st, status |-> "Err", val |-> 0]
    ELSE IF r.buf = <<>> THEN [st |-> r.st, status |-> "NoMatch", val |-> 0]
    ELSE
    Bind(utf8_char_width(r.buf[1]), LAMBDA width :
    IF width = 1 THEN [st |-> r.st, status |-> "Ok", val |-> r.buf[1]]
    ELSE IF width = 0 THEN [st |-> r.st, status |-> "NoMatch", val |-> 0]
    ELSE
    Bind(fill_request(r.st, width), LAMBDA q :
    IF ~q.ok THEN [st |-> q.st, status |-> "Err", val |-> 0]
    ELSE IF Len(q.buf) < width
    THEN [st |-> q.st, status |-> "NoMatch", val |-> 0]
    ELSE IF is_utf8(slice_to(q.buf, width))
    THEN [st |-> q.st, status |-> "Ok", val |-> char_at0(q.buf)]
    ELSE [st |-> q.st, status |-> "NoMatch", val |-> 0])))

\* ---- string capture (rt.rs, String for ~str) ----
\* drop_incomplete_utf8_suffix, looking at the bytes before offset i: the pair
\* (end of the part to decode, next request).
RECURSIVE drop_suffix_from(_, _)
drop_suffix_from(buf, i) ==
    IF i = 0 THEN <<0, 1>>
    ELSE IF utf8_char_width(buf[i]) > 1
    THEN <<i - 1, (i - 1) + utf8_char_width(buf[i])>>
    ELSE IF utf8_char_width(buf[i]) = 1 THEN <<i, i + 1>>
    ELSE drop_suffix_from(buf, i - 1)

drop_incomplete_utf8_suffix(buf) == drop_suffix_from(buf, Len(buf))

\* The terminator test of the capture: CR or LF in line mode, any whitespace
\* codepoint otherwise.
IsTerminator(c, end_at_newline) ==
    IF end_at_newline THEN c = 13 \/ c = 10 ELSE is_whitespace(c)

\* char_indices() up to the first terminator: its byte offset in the
\* well-formed text new from offset k on, -1 when there is none.
RECURSIVE find_terminator(_, _, _)
find_terminator(new, k, end_at_newline) ==
    IF k >= Len(new) THEN -1
    ELSE IF IsTerminator(char_at0(slice_from(new, k)), end_at_newline) THEN k
    ELSE find_terminator(new, k + utf8_char_width(new[k + 1]),
                         end_at_newline)

\* The 'reading loop of the capture; i is the end of the text accepted so far.
RECURSIVE capture_loop(_, _, _, _, _)
capture_loop(S, i, request, end_at_newline, fuel) ==
    IF fuel = 0 THEN [st |-> S, status |-> "Hang", i |-> i]
    ELSE
    Bind(fill_request(S, request), LAMBDA r :
    IF ~r.ok THEN [st |-> r.st, status |-> "Err", i |-> i]
    ELSE IF Len(r.buf) < request THEN [st |-> r.st, status |-> "Ok", i |-> i]
    ELSE
    Bind(drop_incomplete_utf8_suffix(r.buf), LAMBDA d :
    IF ~(d[2] > Len(r.buf)) \/ i > d[1]
    THEN [st |-> r.st, status |-> "Panic", i |-> i]
    ELSE
    Bind(slice(r.buf, i, d[1]), LAMBDA new :
    IF ~is_utf8(new) THEN [st |-> r.st, status |-> "NoMatch", i |-> i]
    ELSE
    Bind(find_terminator(new, 0, end_at_newline), LAMBDA j :
    IF j >= 0 THEN [st |-> r.st, status |-> "Ok", i |-> i + j]
    ELSE capture_loop(r.st, d[1], d[2], end_at_newline, fuel - 1)))))

\* The start offset of the last codepoint of well-formed text.
RECURSIVE last_char_start(_, _)
last_char_start(text, k) ==
    IF k <= 1 \/ ~IsCont(text[k]) THEN k - 1 ELSE last_char_start(text, k - 1)

\* trim_right_chars(&ch) for fill >= 0, trim_right() (whitespace) otherwise.
RECURSIVE trim_right(_, _)
trim_right(text, fill) ==
    IF text = <<>> THEN text
    ELSE Bind(last_char_start(text, Len(text)), LAMBDA k :
         Bind(char_at0(slice_from(text, k)), LAMBDA c :
         IF (IF fill >= 0 THEN c = fill ELSE is_whitespace(c))
         THEN trim_right(slice_to(text, k), fill)
         ELSE text))

trim_postpad(sc, text) ==
    IF sc.align \in {"AlignRight", "AlignCenter"}
    THEN trim_right(text, sc.fill)
    ELSE text

scan_string(S, sc) ==
    Bind(skip_prepad(S, sc), LAMBDA p :
    IF p.status # "Ok"
    THEN [st |-> p.st, status |-> p.status, val |-> 0, buf |-> <<>>]
    ELSE
    Bind(capture_loop(p.st, 0, 1, HasFlag(sc, FlagAlternate), MaxIter),
         LAMBDA l :
    IF l.status # "Ok"
    THEN [st |-> l.st, status |-> l.status, val |-> 0, buf |-> <<>>]
    ELSE IF HasFlag(sc, FlagSignPlus) /\ l.i = 0
    THEN [st |-> l.st, status |-> "NoMatch", val |-> 0, buf |-> <<>>]
    ELSE
    Bind(fill_request(l.st, l.i), LAMBDA r :
    IF ~r.ok THEN [st |-> r.st, status |-> "Err", val |-> 0, buf |-> <<>>]
    ELSE IF Len(r.buf) < l.i \/ ~is_utf8(slice_to(r.buf, l.i))
    THEN [st |-> r.st, status |-> "Panic", val |-> 0, buf |-> <<>>]
    ELSE
    Bind(consume(r.st, l.i), LAMBDA S1 :
    IF S1.panic THEN [st |-> S1, status |-> "Panic", val |-> 0, buf |-> <<>>]
    ELSE [st |-> S1, status |-> "Ok", val |-> l.i,
          buf |-> trim_postpad(sc, slice_to(r.buf, l.i))]))))

\* ---- the format parser (parse.rs) ----
\* A format string is a sequence of codepoints; offsets count codepoints (the
\* strings of the model are ASCII, where byte and codepoint offsets agree).
\* str::find with a set of characters, searching from offset k: the offset of
\* the first of them, -1 for None.
RECURSIVE find_from(_, _, _)
find_from(s, C, k) ==
    IF k >= Len(s) THEN -1
    ELSE IF s[k + 1] \in C THEN k
    ELSE find_from(s, C, k + 1)

\* find taking the end of the text for a match when there is none.
find_or_end(s, C) ==
    IF find_from(s, C, 0) < 0 THEN Len(s) ELSE find_from(s, C, 0)

find(s, C) == find_from(s, C, 0)

RECURSIVE str_trim_left(_)
str_trim_left(s) ==
    IF s # <<>> /\ is_whitespace(s[1]) THEN str_trim_left(Tail(s)) ELSE s

RECURSIVE str_trim_right(_)
str_trim_right(s) ==
    IF s # <<>> /\ is_whitespace(s[Len(s)])
    THEN str_trim_right(SubSeq(s, 1, Len(s) - 1)) ELSE s

str_trim(s) == str_trim_right(str_trim_left(s))

starts_with(s, c) == s # <<>> /\ s[1] = c

\* slice_shift_char: the first codepoint, if any, and the rest.
slice_shift_char(s) ==
    IF s = <<>> THEN [some |-> FALSE, c |-> 0, rest |-> <<>>]
    ELSE [some |-> TRUE, c |-> s[1], rest |-> Tail(s)]

\* parse_uint: the leading digit run as a number and the rest; none when the
\* run is empty.  (uint overflow needs a run of 20 digits, longer than the
\* strings of the model.)
RECURSIVE uint_end(_, _)
uint_end(s, i) ==
    IF i < Len(s) /\ IsDigit(s[i + 1]) THEN uint_end(s, i + 1) ELSE i

parse_uint(s) ==
    Bind(uint_end(s, 0), LAMBDA n :
    IF n = 0 THEN [some |-> FALSE, v |-> 0, rest |-> s]
    ELSE [some |-> TRUE, v |-> DigitsValue(slice_to(s, n), 0),
          rest |-> slice_from(s, n)])

\* char::is_XID_start / is_XID_continue on ASCII.
is_XID_start(c) == (65 <= c /\ c <= 90) \/ (97 <= c /\ c <= 122)

is_XID_continue(c) == is_XID_start(c) \/ IsDigit(c) \/ c = 95

\* The while loop of parse_ident: the offset of the first codepoint from i on
\* that cannot continue an identifier.
RECURSIVE ident_end(_, _)
ident_end(s, i) ==
    IF i < Len(s) /\ is_XID_continue(s[i + 1]) THEN ident_end(s, i + 1) ELSE i

parse_ident(s) ==
    IF s = <<>> \/ ~is_XID_start(s[1])
    THEN [some |-> FALSE, id |-> <<>>, rest |-> s]
    ELSE Bind(ident_end(s, 1), LAMBDA i :
         [some |-> TRUE, id |-> slice_to(s, i), rest |-> slice_from(s, i)])

\* The position of an argument: <name> ::= INTEGER | IDENT | '*'.
NoPosition == [kind |-> "ArgumentNext", v |-> 0, name |-> <<>>]

parse_position(s) ==
    IF s[1] = 42
    THEN [pos |-> [NoPosition EXCEPT !.kind = "ArgumentSuppress"],
          rest |-> slice_from(s, 1)]
    ELSE IF IsDigit(s[1])
    THEN Bind(parse_uint(s), LAMBDA u :
         IF u.some
         THEN [pos |-> [NoPosition EXCEPT !.kind = "ArgumentIs", !.v = u.v],
               rest |-> u.rest]
         ELSE [pos |-> NoPosition, rest |-> s])
    ELSE Bind(parse_ident(s), LAMBDA d :
         IF d.some
         THEN [pos |-> [NoPosition EXCEPT !.kind = "ArgumentNamed",
                                          !.name = d.id],
               rest |-> d.rest]
         ELSE [pos |-> NoPosition, rest |-> s])

\* The search for the padding character: fill (-1 for None), alignment and
\* the text the rest of the spec is read from.
AlignOf(c) ==
    CASE c = 60 -> "AlignLeft"
      [] c = 94 -> "AlignCenter"
      [] c = 62 -> "AlignRight"
      [] OTHER  -> "AlignUnknown"

parse_fill_align(spec) ==
    Bind(slice_shift_char(spec), LAMBDA h1 :
    Bind(str_trim_left(h1.rest), LAMBDA s1 :
    Bind(slice_shift_char(s1), LAMBDA h2 :
    Bind(str_trim_left(h2.rest), LAMBDA s2 :
    IF h1.some /\ h2.some /\ h2.c \in {60, 94, 62}
    THEN [fill |-> h1.c, align |-> AlignOf(h2.c), s |-> s2]
    ELSE IF h1.some /\ h1.c \in {60, 94, 62}
    THEN [fill |-> -1, align |-> AlignOf(h1.c), s |-> s1]
    ELSE [fill |-> -1, align |-> "AlignUnknown", s |-> spec]))))

\* The flags read with a plain `if` for '-' in place of the `else if`.
parse_flags_both(s) ==
    Bind(IF starts_with(s, 43)
         THEN [flags |-> 2 ^ FlagSignPlus,
               s |-> str_trim_left(slice_from(s, 1))]
         ELSE [flags |-> 0, s |-> s], LAMBDA p :
    Bind(IF starts_with(p.s, 45)
         THEN [flags |-> p.flags + 2 ^ FlagSignMinus,
               s |-> str_trim_left(slice_from(p.s, 1))]
         ELSE p, LAMBDA f :
    IF starts_with(f.s, 35)
    THEN [flags |-> f.flags + 2 ^ FlagAlternate,
          s |-> str_trim_left(slice_from(f.s, 1))]
    ELSE f))

\* The one-character flags: the flag bits and the text after them.
parse_flags(s) ==
    Bind(IF starts_with(s, 43)
         THEN [flags |-> 2 ^ FlagSignPlus,
               s |-> str_trim_left(slice_from(s, 1))]
         ELSE IF starts_with(s, 45)
         THEN [flags |-> 2 ^ FlagSignMinus,
               s |-> str_trim_left(slice_from(s, 1))]
         ELSE [flags |-> 0, s |-> s], LAMBDA f :
    IF starts_with(f.s, 35)
    THEN [flags |-> f.flags + 2 ^ FlagAlternate,
          s |-> str_trim_left(slice_from(f.s, 1))]
    ELSE f)

NoScanSpec ==
    [fill |-> -1, align |-> "AlignUnknown", flags |-> 0, width |-> -1,
     ty |-> <<>>]

\* The scan spec after the ':' (width -1 for None).
parse_spec(spec0) ==
    Bind(str_trim_left(slice_from(spec0, 1)), LAMBDA spec :
    Bind(parse_fill_align(spec), LAMBDA a :
    Bind(parse_flags(a.s), LAMBDA f :
    Bind(parse_uint(str_trim_left(f.s)), LAMBDA w :
    Bind(parse_ident(str_trim_left(IF w.some THEN str_trim_left(w.rest)
                                   ELSE w.rest)), LAMBDA t :
    IF str_trim(t.rest) # <<>>
    THEN [ok |-> FALSE, err |-> "invalid scan spec", scan |-> NoScanSpec]
    ELSE [ok |-> TRUE, err |-> "",
          scan |-> [fill |-> a.fill, align |-> a.align, flags |-> f.flags,
                    width |-> IF w.some THEN w.v ELSE -1,
                    ty |-> t.id]])))))

NoArgument == [position |-> NoPosition, scan |-> NoScanSpec]

\* parse_argument: s is the text after the opening brace.
parse_argument(s0) ==
    Bind(str_trim_left(s0), LAMBDA s :
    IF s = <<>>
    THEN [ok |-> FALSE, err |-> "a premature end of argument",
          arg |-> NoArgument, rest |-> <<>>]
    ELSE
    Bind(parse_position(s), LAMBDA p :
    Bind(find(p.rest, {125}), LAMBDA idx :
    IF idx < 0
    THEN [ok |-> FALSE, err |-> "a premature end of argument",
          arg |-> NoArgument, rest |-> <<>>]
    ELSE
    Bind(slice_to(p.rest, idx), LAMBDA spec :
    Bind(slice_from(p.rest, idx + 1), LAMBDA remaining :
    IF starts_with(spec, 58)
    THEN Bind(parse_spec(spec), LAMBDA sp :
         IF ~sp.ok
         THEN [ok |-> FALSE, err |-> sp.err, arg |-> NoArgument,
               rest |-> <<>>]
         ELSE [ok |-> TRUE, err |-> "",
               arg |-> [position |-> p.pos, scan |-> sp.scan],
               rest |-> remaining])
    ELSE IF str_trim(spec) # <<>>
    THEN [ok |-> FALSE, err |-> "unexpected string after the position",
          arg |-> NoArgument, rest |-> <<>>]
    ELSE [ok |-> TRUE, err |-> "",
          arg |-> [position |-> p.pos, scan |-> NoScanSpec],
          rest |-> remaining])))))

\* The pieces.
StringPiece(text) == [kind |-> "String", text |-> text, arg |-> NoArgument]

WhitespacePiece == [kind |-> "Whitespace", text |-> <<>>, arg |-> NoArgument]

ArgumentPiece(arg) == [kind |-> "Argument", text |-> <<>>, arg |-> arg]

ParseError(err) == [done |-> TRUE, ok |-> FALSE, err |-> err, pieces |-> <<>>]

\* The escaped codepoint taken for the start of a literal as if it were not
\* escaped: the search for the next special character starts at it.
char_range_next_unescaped(s) == 0

\* s.char_range_at(0).next: the offset after the first codepoint of s.
char_range_next(s) == 1

\* The loop of parse_fmt: s is the text not yet turned into pieces, start the
\* offset the search for the next special character starts from.
RECURSIVE parse_loop(_, _, _)
parse_loop(s, start, pieces) ==
    Bind(find_from(s, {92, 123, 125, 32, 9, 13, 10}, start), LAMBDA next :
    IF next < 0
    THEN [done |-> TRUE, ok |-> TRUE, err |-> "",
          pieces |-> IF s # <<>> THEN Append(pieces, StringPiece(s))
                     ELSE pieces]
    ELSE
    Bind(IF next > 0 THEN Append(pieces, StringPiece(slice_to(s, next)))
         ELSE pieces, LAMBDA ps :
    Bind(slice_from(s, next + 1), LAMBDA s1 :
    Bind(s[next + 1], LAMBDA c :
    IF c = 92
    THEN IF s1 = <<>> THEN ParseError("an unfinished escape sequence")
         ELSE parse_loop(s1, char_range_next(s1), ps)
    ELSE IF c = 123
    THEN Bind(parse_argument(s1), LAMBDA a :
         IF ~a.ok THEN ParseError(a.err)
         ELSE parse_loop(a.rest, 0, Append(ps, ArgumentPiece(a.arg))))
    ELSE IF c = 125
    THEN ParseError("unexpected } in the literal")
    ELSE parse_loop(str_trim_left(s1), 0, Append(ps, WhitespacePiece))))))

\* parse_fmt pushing the rest of the text as a literal even when it is empty.
parse_fmt_always_push(s) ==
    Bind(parse_loop(s, 0, <<>>), LAMBDA r :
    IF r.ok /\ s = <<>>
    THEN [r EXCEPT !.pieces = Append(@, StringPiece(<<>>))]
    ELSE r)

parse_fmt(s) == parse_loop(s, 0, <<>>)

\* ---- the record of the last operation ----
NoLast == [op |-> "init", status |-> "Ok", amt |-> 0, buf |-> <<>>, val |-> 0,
           flags |-> 0, align |-> "AlignUnknown", fill |-> -1, ty |-> "",
           pre |-> [saved |-> <<>>, savedpos |-> 0, savederr |-> FALSE,
                    index |-> 0, pos |-> 0, consumed |-> <<>>,
                    srcerr |-> FALSE]]

Pre == [saved |-> saved, savedpos |-> savedpos, savederr |-> savederr,
        index |-> index, pos |-> pos, consumed |-> consumed, srcerr |-> srcerr]

\* The task is alive (no assertion failed, no loop ran away), and the model's
\* cap on the accumulation buffer is not reached.
Running == last.status \notin {"Panic", "Hang"} /\ Len(saved) < MaxSaved

Store(S) ==
    /\ index' = S.index
    /\ pos' = S.pos
    /\ saved' = S.saved
    /\ savedpos' = S.savedpos
    /\ savederr' = S.savederr
    /\ consumed' = S.consumed
    /\ srcerr' = S.srcerr
    /\ refill' = S.refill
    /\ srcview' = S.srcview
    /\ overrun' = S.overrun
    /\ UNCHANGED <<calls, fmt, parsed>>

\* No format string has been parsed.
NoParse == [done |-> FALSE, ok |-> FALSE, err |-> "", pieces |-> <<>>]

FreshBuffer ==
    /\ index = 0
    /\ pos = 0
    /\ saved = <<>>
    /\ savedpos = 0
    /\ savederr = FALSE
    /\ consumed = <<>>
    /\ srcerr = FALSE
    /\ refill = FALSE
    /\ srcview = 0
    /\ overrun = FALSE
    /\ last = NoLast

InitBuffer ==
    /\ FreshBuffer
    /\ fmt = <<>>
    /\ parsed = NoParse

\* ---- byte-level specification: fill_request and consume over 1..n ----
Init ==
    /\ \E n \in 0..MaxLen : calls \in Chunkings([i \in 1..n |-> i], MaxChunks)
    /\ InitBuffer

FillRequest ==
    /\ Running
    /\ \E amt \in 0..MaxAmt :
         Bind(fill_request(St, amt), LAMBDA r :
         /\ Store(r.st)
         /\ last' = [NoLast EXCEPT !.op = "fill_request",
                                   !.status = IF r.ok THEN "Ok" ELSE "Err",
                                   !.amt = amt, !.buf = r.buf, !.pre = Pre])

\* consume(n), n at most the length of the view fill_request last returned.
Consume ==
    /\ Running
    /\ last.op = "fill_request" /\ last.status = "Ok"
    /\ \E n \in 0..Len(last.buf) :
         Bind(consume(St, n), LAMBDA S :
         /\ Store(S)
         /\ last' = [NoLast EXCEPT !.op = "consume",
                                   !.status = IF S.panic THEN "Panic" ELSE "Ok",
                                   !.amt = n, !.pre = Pre])

Next == FillRequest \/ Consume

Spec == Init /\ [][Next]_vars

\* ---- integer scanning specification ----
\* Streams over '+', '-', '9', 'a', ' ', cut into non-empty chunks.
IntBytes == {43, 45, 57, 97, 32}

RECURSIVE Seqs(_, _)
Seqs(A, n) ==
    IF n = 0 THEN {<<>>}
    ELSE Seqs(A, n - 1) \cup { <<a>> \o t : a \in A, t \in Seqs(A, n - 1) }

NonEmptyChunks(cs) == \A k \in 1..Len(cs) : cs[k] # <<>>

InitInt ==
    /\ \E s \in Seqs(IntBytes, MaxChars) :
         calls \in { c \in Chunkings(s, ScanChunks) : NonEmptyChunks(c) }
    /\ InitBuffer

ScanSigned ==
    /\ Running
    /\ \E flags \in {0, 1}, align \in {"AlignUnknown", "AlignLeft",
                                        "AlignRight", "AlignCenter"},
          fill \in {-1}, ty \in {"i8", "u8"} :
         Bind(scan_signed_digits(St, [flags |-> flags, fill |-> fill,
                                      align |-> align], ty), LAMBDA r :
         /\ Store(r.st)
         /\ last' = [NoLast EXCEPT !.op = "scan_signed_digits",
                                   !.status = r.status, !.val = r.val,
                                   !.buf = r.buf, !.flags = flags,
                                   !.align = align, !.fill = fill, !.ty = ty,
                                   !.pre = Pre])

NextInt == ScanSigned

SpecInt == InitInt /\ [][NextInt]_vars

\* ---- string capture specification ----
\* Streams of the codepoints 'a', ' ', LF and U+00E9 (two bytes: 195 169),
\* cut into non-empty chunks at any byte offset.
StrChars == {<<97>>, <<32>>, <<10>>, <<195, 169>>}

RECURSIVE Texts(_, _)
Texts(A, n) ==
    IF n = 0 THEN {<<>>}
    ELSE Texts(A, n - 1) \cup { a \o t : a \in A, t \in Texts(A, n - 1) }

InitStr ==
    /\ \E s \in Texts(StrChars, MaxChars) :
         calls \in { c \in Chunkings(s, ScanChunks) : NonEmptyChunks(c) }
    /\ InitBuffer

ScanString ==
    /\ Running
    /\ \E flags \in {0, 1, 4, 5}, align \in {"AlignUnknown", "AlignLeft",
                                              "AlignRight", "AlignCenter"},
          fill \in {-1, 97} :
         Bind(scan_string(St, [flags |-> flags, fill |-> fill,
                               align |-> align]), LAMBDA r :
         /\ Store(r.st)
         /\ last' = [NoLast EXCEPT !.op = "scan_string",
                                   !.status = r.status, !.val = r.val,
                                   !.buf = r.buf, !.flags = flags,
                                   !.align = align, !.fill = fill,
                                   !.pre = Pre])

NextStr == ScanString

SpecStr == InitStr /\ [][NextStr]_vars

\* ---- peek_char specification ----
\* Streams over 'a', the bytes of U+00E9 (195 169) and of U+3000
\* (227 128 128), whole or cut short, in any order.
PeekBytes == {97, 195, 169, 227, 128}

InitPeek ==
    /\ \E s \in Seqs(PeekBytes, MaxLen) :
         calls \in { c \in Chunkings(s, MaxChunks) : NonEmptyChunks(c) }
    /\ InitBuffer

PeekChar ==
    /\ Running
    /\ Bind(peek_char(St), LAMBDA r :
            /\ Store(r.st)
            /\ last' = [NoLast EXCEPT !.op = "peek_char", !.status = r.status,
                                      !.val = r.val, !.pre = Pre])

NextPeek == PeekChar \/ FillRequest \/ Consume

SpecPeek == InitPeek /\ [][NextPeek]_vars

\* ---- pad skipping specification ----
\* Streams over ' ', 'a' and the bytes of U+00E9 (195 169), cut into non-empty
\* chunks; read_pad_byte_if with is_pad = (ch == ' '), read_pad_char with the
\* pad ' ' or U+00E9.
PadStreamBytes == {32, 97, 195, 169}

InitPad ==
    /\ \E s \in Seqs(PadStreamBytes, MaxChars) :
         calls \in { c \in Chunkings(s, ScanChunks) : NonEmptyChunks(c) }
    /\ InitBuffer

ReadPadByteIf ==
    /\ Running
    /\ Bind(read_pad_byte_if(St, {32}), LAMBDA r :
            /\ Store(r.st)
            /\ last' = [NoLast EXCEPT !.op = "read_pad_byte_if",
                                      !.status = r.status, !.val = r.n,
                                      !.fill = 32, !.pre = Pre])

ReadPadChar ==
    /\ Running
    /\ \E pad \in {32, 233} :
         Bind(read_pad_char(St, pad), LAMBDA r :
            /\ Store(r.st)
            /\ last' = [NoLast EXCEPT !.op = "read_pad_char",
                                      !.status = r.status, !.val = r.n,
                                      !.fill = pad, !.pre = Pre])

NextPad == ReadPadByteIf \/ ReadPadChar \/ FillRequest \/ Consume

SpecPad == InitPad /\ [][NextPad]_vars

\* ---- all operations of the LookaheadBuffer and of the scanners together ----
\* Streams over '9', ' ' and the bytes of U+00E9, cut into non-empty chunks.
AllBytes == {57, 32, 195, 169}

InitAll ==
    /\ \E s \in Seqs(AllBytes, AllLen) :
         calls \in { c \in Chunkings(s, ScanChunks) : NonEmptyChunks(c) }
    /\ InitBuffer

PeekByte ==
    /\ Running
    /\ Bind(peek_byte(St), LAMBDA r :
            /\ Store(r.st)
            /\ last' = [NoLast EXCEPT !.op = "peek_byte", !.status = r.status,
                                      !.val = r.val, !.pre = Pre])

\* An integer scan with padding on both sides (whitespace or the fill '9').
ScanPaddedInt ==
    /\ Running
    /\ \E align \in {"AlignUnknown", "AlignCenter"}, fill \in {-1, 57} :
         Bind(scan_signed_digits(St, [flags |-> 0, fill |-> fill,
                                      align |-> align], "u8"), LAMBDA r :
         /\ Store(r.st)
         /\ last' = [NoLast EXCEPT !.op = "scan_signed_digits",
                                   !.status = r.status, !.val = r.val,
                                   !.buf = r.buf, !.align = align,
                                   !.fill = fill, !.ty = "u8", !.pre = Pre])

\* A string capture with padding on both sides (whitespace or U+00E9).
ScanPaddedString ==
    /\ Running
    /\ \E align \in {"AlignUnknown", "AlignCenter"}, fill \in {-1, 233} :
         Bind(scan_string(St, [flags |-> 0, fill |-> fill, align |-> align]),
              LAMBDA r :
         /\ Store(r.st)
         /\ last' = [NoLast EXCEPT !.op = "scan_string",
                                   !.status = r.status, !.val = r.val,
                                   !.buf = r.buf, !.align = align,
                                   !.fill = fill, !.pre = Pre])

NextAll ==
    \/ FillRequest
    \/ Consume
    \/ ReadPadByteIf
    \/ ReadPadChar
    \/ PeekByte
    \/ PeekChar
    \/ ScanPaddedInt
    \/ ScanPaddedString

SpecAll == InitAll /\ [][NextAll]_vars

\* ---- a caller that keeps requesting and consuming what it is given ----
\* Once an error is recorded saved grows no more, so the cap on saved is not
\* applied from then on.
DrainRunning ==
    last.status \notin {"Panic", "Hang"} /\ (savederr \/ Len(saved) < MaxSaved)

Request ==
    /\ DrainRunning
    /\ \E amt \in 0..MaxAmt :
         Bind(fill_request(St, amt), LAMBDA r :
         /\ Store(r.st)
         /\ last' = [NoLast EXCEPT !.op = "fill_request",
                                   !.status = IF r.ok THEN "Ok" ELSE "Err",
                                   !.amt = amt, !.buf = r.buf, !.pre = Pre])

\* consume of the whole view fill_request just returned, when it holds bytes.
Drain ==
    /\ DrainRunning
    /\ last.op = "fill_request" /\ last.status = "Ok" /\ last.buf # <<>>
    /\ Bind(consume(St, Len(last.buf)), LAMBDA S :
         /\ Store(S)
         /\ last' = [NoLast EXCEPT !.op = "consume",
                                   !.status = IF S.panic THEN "Panic" ELSE "Ok",
                                   !.amt = Len(last.buf), !.pre = Pre])

NextDrain == Request \/ Drain

SpecDrain ==
    Init /\ [][NextDrain]_vars /\ WF_vars(Request) /\ WF_vars(Drain)

\* ---- format parsing specification ----
\* Format strings over 'a', ' ', U+000B (whitespace that is none of space, tab,
\* CR, LF), '\', '{' and '}', and arguments "{:" spec "}"
\* whose spec is written over '9', 'a', ' ', '<', '>', '+', '-' and '#', and
\* arguments "{" text "}" whose text is written over '*', '9', 'a', ' ', ':'.
FmtChars == {97, 32, 11, 92, 123, 125}

SpecChars == {57, 97, 32, 60, 62, 43, 45, 35}

PosChars == {42, 57, 97, 32, 58}

FmtStrings ==
    Seqs(FmtChars, FmtLen)
    \cup { <<123, 58>> \o t \o <<125>> : t \in Seqs(SpecChars, SpecLen) }
    \cup { <<123>> \o t \o <<125>> : t \in Seqs(PosChars, PosLen) }

InitFmt ==
    /\ fmt \in FmtStrings
    /\ parsed = NoParse
    /\ calls = <<>>
    /\ FreshBuffer

ParseFmt ==
    /\ ~parsed.done
    /\ parsed' = parse_fmt(fmt)
    /\ UNCHANGED <<calls, index, pos, saved, savedpos, savederr, consumed,
                   srcerr, refill, srcview, overrun, last, fmt>>

NextFmt == ParseFmt

SpecFmt == InitFmt /\ [][NextFmt]_vars

\* ---- claims on fill_request / consume ----

\* C1: chunk-boundary transparency.  The bytes consumed through the
\* LookaheadBuffer are a prefix of the source stream (none twice, none
\* skipped), and every view fill_request returns is a prefix of the stream's
\* not yet consumed remainder, whatever the chunking.
C1_ChunkTransparency ==
    /\ IsPrefix(consumed, Stream)
    /\ (last.op = "fill_request" /\ last.status = "Ok")
         => IsPrefix(last.buf, slice_from(Stream, Len(consumed)))

\* C2: sticky error ordering.  fill_request returns the terminal error only
\* from a call made with cursor = buffered length, and the call that records
\* the error still returns the buffered bytes.
C2_ErrorOnlyWhenDrained ==
    /\ (last.op = "fill_request" /\ last.status = "Err")
         => last.pre.savedpos = Len(last.pre.saved)
    /\ (last.op = "fill_request" /\ savederr /\ ~last.pre.savederr)
         => (last.status = "Ok" /\ last.buf = slice_from(saved, savedpos))

\* A recorded error is given out after bytes were buffered and all consumed.
C2_Witness ==
    /\ last.op = "fill_request" /\ last.status = "Err"
    /\ last.pre.savederr /\ Len(last.pre.saved) > 0

\* C3: a view shorter than min_len is returned only after the source reported
\* its terminal condition, with fewer than min_len unconsumed bytes left in
\* the stream.
C3_ShortOnlyAtEnd ==
    /\ (last.op = "fill_request" /\ last.status = "Ok"
            /\ Len(last.buf) < last.amt)
         => /\ srcerr
            /\ Len(Stream) - Len(consumed) < last.amt
    /\ (last.op = "fill_request" /\ last.amt > 0
            /\ Len(Stream) - Len(consumed) >= last.amt)
         => (last.status = "Ok" /\ Len(last.buf) >= last.amt)

\* A short view at the end of the stream, after bytes were consumed: the view
\* is what is left of the stream, gathered from more than one chunk.
C3_Witness ==
    /\ last.op = "fill_request" /\ last.status = "Ok"
    /\ 0 < Len(last.buf) /\ Len(last.buf) < last.amt
    /\ Len(consumed) > 0 /\ IsPrefix(consumed, Stream)
    /\ last.buf = slice_from(Stream, Len(consumed))
    /\ Len(last.buf) > 1 /\ NonEmptyChunks(calls) /\ Len(calls) = 3

\* ---- what the claims on the scanners speak of ----
\* The last operation was the first one on a fresh LookaheadBuffer.
FirstOp == last.pre = NoLast.pre

\* What the buffer is positioned at: the unread part of saved, then what the
\* source has not had consumed.
Rest ==
    slice_from(saved, savedpos)
    \o (IF index < Len(calls)
        THEN slice_from(calls[index + 1], pos)
             \o Concat(SubSeq(calls, index + 2, Len(calls)))
        ELSE <<>>)

\* The bytes the last operation consumed.
Taken == slice_from(consumed, Len(last.pre.consumed))

RECURSIVE DigitRun(_, _)
DigitRun(s, k) ==
    IF k <= Len(s) /\ IsDigit(s[k]) THEN 1 + DigitRun(s, k + 1) ELSE 0

\* Length of the longest prefix of s of the form ('+' | '-')? ('0'..'9')+,
\* 0 when s has none.
MatchLen(s) ==
    IF s # <<>> /\ s[1] \in {43, 45}
    THEN (IF DigitRun(s, 2) > 0 THEN 1 + DigitRun(s, 2) ELSE 0)
    ELSE DigitRun(s, 1)

\* The number a text ('+' | '-')? ('0'..'9')+ denotes.
IntValue(text) ==
    IF IsNeg(text) THEN 0 - DigitsValue(Unsigned(text), 0)
    ELSE DigitsValue(Unsigned(text), 0)

FitsType(text, ty) ==
    TypeMin(ty) <= IntValue(text) /\ IntValue(text) <= TypeMax(ty)

\* C4: signed scan without mandatory sign (no padding in play, a non-empty
\* stream, the prefix's value in the target type's range).  The scan returns
\* the value of the longest prefix ('+' | '-')? digits+, consumes exactly that
\* prefix and leaves the buffer at the byte after it; without such a prefix it
\* returns no-match and consumes nothing.  For every chunking.
C4_SignedScan ==
    (/\ last.op = "scan_signed_digits" /\ FirstOp
     /\ last.flags = 0 /\ last.align = "AlignUnknown"
     /\ Stream # <<>>
     /\ FitsType(slice_to(Stream, MatchLen(Stream)), last.ty))
    => IF MatchLen(Stream) > 0
       THEN /\ last.status = "Ok"
            /\ last.val = IntValue(slice_to(Stream, MatchLen(Stream)))
            /\ consumed = slice_to(Stream, MatchLen(Stream))
            /\ Rest = slice_from(Stream, MatchLen(Stream))
       ELSE /\ last.status = "NoMatch"
            /\ consumed = <<>>

\* C5: mandatory sign (stream delivered in one chunk, no padding in play).
\* With SignPlus set, a sign followed by digits is accepted and yields its
\* value; input that starts with a digit yields no-match.
C5_MandatorySign ==
    (/\ last.op = "scan_signed_digits" /\ FirstOp
     /\ last.flags = 1 /\ last.align = "AlignUnknown"
     /\ Len(calls) = 1
     /\ FitsType(slice_to(Stream, MatchLen(Stream)), last.ty))
    => /\ (Stream[1] \in {43, 45} /\ MatchLen(Stream) >= 2)
           => /\ last.status = "Ok"
              /\ last.val = IntValue(slice_to(Stream, MatchLen(Stream)))
       /\ IsDigit(Stream[1]) => last.status = "NoMatch"

\* C6: termination.  Over a finite stream delivered as non-empty chunks,
\* every operation returns: none is still looping after MaxIter iterations.
C6_Terminates ==
    NonEmptyChunks(calls) => last.status # "Hang"

\* The bytes pad skipping may take for a scanner with this fill.
PadBytes(fill) ==
    IF fill >= 0 THEN {encode_utf8(fill)[k] : k \in 1..Len(encode_utf8(fill))}
    ELSE {32, 9, 13, 10}

\* C7: no-match leaves the input untouched.  Whenever the integer scan
\* returns no-match it has consumed nothing but the pre-padding (nothing at
\* all when the alignment asks for no pre-padding).
C7_NoMatchUntouched ==
    (last.op = "scan_signed_digits" /\ last.status = "NoMatch")
    => /\ \A k \in 1..Len(Taken) : Taken[k] \in PadBytes(last.fill)
       /\ last.align \notin {"AlignLeft", "AlignCenter"} => Taken = <<>>

\* Offset of the first terminator of the stream for the capture mode of the
\* last operation (flag Alternate: CR or LF; else whitespace), -1 if none.
TermAt == find_terminator(Stream, 0, (last.flags \div 4) % 2 = 1)

\* C8: string capture terminator (no padding in play, a stream that holds a
\* terminator after a non-empty text).  The value is exactly the input before
\* the first terminator, exactly those bytes are consumed and the buffer is
\* positioned at the terminator.
C8_StringTerminator ==
    (/\ last.op = "scan_string" /\ FirstOp
     /\ last.align = "AlignUnknown"
     /\ TermAt > 0)
    => /\ last.status = "Ok"
       /\ last.buf = slice_to(Stream, TermAt)
       /\ consumed = slice_to(Stream, TermAt)
       /\ Rest # <<>> /\ Rest[1] = Stream[TermAt + 1]

\* The two chunks of the source cut a multi-byte codepoint in two, and the
\* codepoint belongs to the value (it lies before the first terminator).
SplitsCodepoint ==
    /\ Len(calls) = 2
    /\ IsCont(calls[2][1])
    /\ (TermAt < 0 \/ Len(calls[1]) < TermAt)

\* C9: UTF-8 boundary safety.  When the chunks split a codepoint of the
\* value, the capture returns the value whole (the text before the first
\* terminator, or the whole stream), the codepoint intact, and does not abort.
C9_Utf8Boundary ==
    (/\ last.op = "scan_string" /\ FirstOp
     /\ last.align = "AlignUnknown"
     /\ SplitsCodepoint)
    => /\ last.status = "Ok"
       /\ last.buf = IF TermAt < 0 THEN Stream ELSE slice_to(Stream, TermAt)

\* The stream from the caller's position on, before the last operation.
Ahead == slice_from(Stream, Len(last.pre.consumed))

\* C10: peek_char (the caller has consumed a prefix of the stream, bytes are
\* left).  It returns the codepoint at the head of the rest of the stream
\* when the stream holds its full, well-formed encoding, however the chunks
\* cut it; "no character" when the lead byte is invalid, the stream ends
\* before the width it announces, or the encoding is malformed; it consumes
\* nothing and the next view starts with the bytes of the codepoint.
C10_PeekChar ==
    (/\ last.op = "peek_char"
     /\ IsPrefix(last.pre.consumed, Stream)
     /\ Ahead # <<>>)
    => /\ consumed = last.pre.consumed
       /\ IF /\ utf8_char_width(Ahead[1]) > 0
             /\ utf8_char_width(Ahead[1]) <= Len(Ahead)
             /\ is_utf8(slice_to(Ahead, utf8_char_width(Ahead[1])))
          THEN /\ last.status = "Ok"
               /\ last.val = char_at0(Ahead)
               /\ IsPrefix(encode_utf8(last.val), fill_request(St, 0).buf)
          ELSE last.status = "NoMatch"

\* ---- claims on pad skipping ----
\* Length of the run of bytes b at the head of s, from offset k on.
RECURSIVE PadRun(_, _, _)
PadRun(s, b, k) ==
    IF k < Len(s) /\ s[k + 1] = b THEN 1 + PadRun(s, b, k + 1) ELSE 0

\* C11: pad skipping result (one-byte pad; the caller has consumed a prefix of
\* the stream).  read_pad_byte_if, and read_pad_char for a one-byte pad,
\* returns as a success the length of the maximal run of pad bytes at the
\* caller's position and has consumed exactly that run, also when the run
\* reaches the end of the source.
C11_PadRunResult ==
    (/\ last.op \in {"read_pad_byte_if", "read_pad_char"}
     /\ last.fill < 128
     /\ IsPrefix(last.pre.consumed, Stream))
    => /\ last.status = "Ok"
       /\ last.val = PadRun(Ahead, last.fill, 0)
       /\ Taken = slice_to(Ahead, PadRun(Ahead, last.fill, 0))

\* ---- claims on repeated requests ----
\* C12: idempotence (chunks non-empty, so that the source's fill is
\* idempotent).  After a fill_request(0), a further fill_request(0) with no
\* consume in between gives the same result: the same view, byte for byte, or
\* the error again.
C12_Idempotent ==
    (/\ last.op = "fill_request" /\ last.amt = 0
     /\ NonEmptyChunks(calls))
    => /\ fill_request(St, 0).ok = (last.status = "Ok")
       /\ fill_request(St, 0).buf = last.buf

\* A fill_request(0) answered from a partly consumed accumulation buffer that
\* has an error recorded behind it.
C12_Witness ==
    /\ last.op = "fill_request" /\ last.amt = 0 /\ last.status = "Ok"
    /\ NonEmptyChunks(calls)
    /\ 0 < savedpos /\ savedpos < Len(saved) /\ savederr

\* The first n bytes of a view, all of it when it is shorter.
FirstBytes(v, n) == slice_to(v, IF n < Len(v) THEN n ELSE Len(v))

\* C13: lookahead consistency.  After fill_request(n) returned a view, a
\* fill_request(m) with m <= n and no consume in between returns a view that
\* starts with the first n bytes of the first view (with all of it, if it was
\* shorter); only after an empty first view may the second call give the
\* recorded error instead.
C13_LookaheadConsistent ==
    (last.op = "fill_request" /\ last.status = "Ok")
    => \A m \in 0..last.amt :
         /\ last.buf # <<>> => fill_request(St, m).ok
         /\ fill_request(St, m).ok
              => IsPrefix(FirstBytes(last.buf, last.amt),
                          fill_request(St, m).buf)

\* A view of at least two requested bytes gathered from more than one chunk.
C13_Witness ==
    /\ last.op = "fill_request" /\ last.status = "Ok"
    /\ last.amt >= 2 /\ Len(last.buf) >= last.amt
    /\ Len(saved) >= 2 /\ index >= 1

\* C13 as stated: the second call always returns a view, and the view starts
\* with the first n bytes of the first one.
C13_AsStated ==
    (last.op = "fill_request" /\ last.status = "Ok")
    => \A m \in 0..last.amt :
         /\ fill_request(St, m).ok
         /\ IsPrefix(FirstBytes(last.buf, last.amt), fill_request(St, m).buf)

\* ---- claims on what a request changes ----
\* The number of bytes the source has had consumed, at chunk index i, offset p.
SrcOffset(i, p) == Len(Concat(SubSeq(calls, 1, i))) + p

\* The last fill_request left saved, the cursor and the source's position in
\* the stream as they were.
BufferUntouched ==
    /\ saved = last.pre.saved
    /\ savedpos = last.pre.savedpos
    /\ consumed = last.pre.consumed
    /\ SrcOffset(index, pos) = SrcOffset(last.pre.index, last.pre.pos)

\* C14 as stated: fill_request(0) consumes nothing from the source and leaves
\* the accumulation buffer, the cursor and the recorded-error slot unchanged.
C14_AsStated ==
    (last.op = "fill_request" /\ last.amt = 0)
    => /\ BufferUntouched
       /\ savederr = last.pre.savederr

\* C14: fill_request(0) consumes nothing from the source and leaves the
\* accumulation buffer and the cursor unchanged; the recorded-error slot is
\* unchanged too, except that a call made with an error recorded and the
\* cursor at the buffered length returns that error and empties the slot.
C14_ZeroRequestFrame ==
    (last.op = "fill_request" /\ last.amt = 0)
    => /\ BufferUntouched
       /\ IF last.pre.savederr /\ last.pre.savedpos = Len(last.pre.saved)
          THEN last.status = "Err" /\ ~savederr
          ELSE savederr = last.pre.savederr

\* A fill_request(0) on a partly consumed accumulation buffer, bytes still
\* pending in the source.
C14_Witness ==
    /\ last.op = "fill_request" /\ last.amt = 0 /\ last.status = "Ok"
    /\ 0 < savedpos /\ savedpos < Len(saved)
    /\ ~savederr /\ index < Len(calls)

\* ---- claims on the cursor and the recorded error ----
\* C15: cursor invariant.  In every state reached by fill_request, consume (of
\* at most the length of the view just returned), read_pad_*, peek_* and the
\* scans, the read cursor is at most the length of the accumulation buffer:
\* the assertion of consume has not failed.
C15_CursorInvariant == savedpos <= Len(saved)

\* A consume that moved the cursor to the very end of a non-empty
\* accumulation buffer.
C15_Witness ==
    /\ last.op = "consume" /\ last.amt > 0
    /\ savedpos = Len(saved) /\ last.pre.savedpos < Len(saved)

\* The recorded error is given out by the first fill_request made with the
\* cursor at the buffered length, which empties the slot; the slot is emptied
\* in no other way.
RecordedErrorOnce ==
    /\ (/\ last.op = "fill_request"
        /\ last.pre.savederr /\ last.pre.savedpos = Len(last.pre.saved))
         => (last.status = "Err" /\ ~savederr)
    /\ (last.pre.savederr /\ ~savederr)
         => (last.op = "fill_request" /\ last.status = "Err")

\* The error just given out by fill_request.
ErrorSurfaced == last.op = "fill_request" /\ last.status = "Err"

\* C16: recorded error surfaced exactly once.  An error recorded during a
\* slow-path fill is returned by the first fill_request made after all
\* buffered bytes were consumed, the slot is empty afterwards and is never
\* emptied otherwise; with a caller that keeps requesting and consuming what
\* it is given, a recorded error is eventually returned.
C16_ErrorSurfacedOnce ==
    /\ []RecordedErrorOnce
    /\ (savederr ~> ErrorSurfaced)

\* The recorded error is returned after the whole stream, more than one byte,
\* went through the accumulation buffer and was consumed.
C16_Witness ==
    /\ ErrorSurfaced /\ last.pre.savederr
    /\ Len(Stream) >= 2 /\ consumed = Stream

\* C17: source errors are captured once and not retried.  Once the source's
\* fill has returned its error, no operation of the LookaheadBuffer calls the
\* source's fill again.
C17_NoRetry == ~refill

\* ---- claims on the format parser ----
ParseDone == parsed.done

Specials == {92, 123, 125, 32, 9, 13, 10}

NoSpecial(s) == \A i \in 1..Len(s) : s[i] \notin Specials

\* C18 as stated: every format string without backslash, brace or whitespace
\* parses to exactly one literal piece holding the string itself.
C18_AsStated ==
    (ParseDone /\ NoSpecial(fmt))
    => /\ parsed.ok
       /\ Len(parsed.pieces) = 1
       /\ parsed.pieces[1].kind = "String"
       /\ parsed.pieces[1].text = fmt

\* C18: every non-empty format string without backslash, brace or whitespace
\* parses to exactly one literal piece holding the string itself; the empty
\* string parses to no piece at all.
C18_LiteralRoundTrip ==
    (ParseDone /\ NoSpecial(fmt))
    => /\ parsed.ok
       /\ IF fmt = <<>> THEN parsed.pieces = <<>>
          ELSE /\ Len(parsed.pieces) = 1
               /\ parsed.pieces[1].kind = "String"
               /\ parsed.pieces[1].text = fmt

C18_Witness ==
    /\ ParseDone
    /\ NoSpecial(fmt)
    /\ Len(fmt) = FmtLen
    /\ parsed.ok
    /\ parsed.pieces = <<[kind |-> "String", text |-> fmt, arg |-> NoArgument]>>

\* The format string is one argument "{:" spec "}" and nothing else.
IsSpecArgument ==
    /\ Len(fmt) >= 3
    /\ fmt[1] = 123
    /\ fmt[2] = 58
    /\ find(fmt, {125}) = Len(fmt) - 1

\* The spec of that argument, left-trimmed.
SpecText == str_trim_left(SubSeq(fmt, 3, Len(fmt) - 1))

AlignSymbols == {60, 94, 62}

\* Fill and alignment as the rule resolves them: a codepoint immediately
\* followed by an alignment symbol, else a lone alignment symbol, else none.
ResolvedFill(t) ==
    IF Len(t) >= 2 /\ t[2] \in AlignSymbols THEN t[1] ELSE -1

ResolvedAlign(t) ==
    IF Len(t) >= 2 /\ t[2] \in AlignSymbols THEN AlignOf(t[2])
    ELSE IF Len(t) >= 1 /\ t[1] \in AlignSymbols THEN AlignOf(t[1])
    ELSE "AlignUnknown"

\* C19: whenever an argument "{:" spec "}" parses, its fill is the codepoint
\* immediately followed by an alignment symbol at the start of the left-trimmed
\* spec (with that alignment), else a lone leading alignment symbol gives the
\* alignment without fill, else there is no fill and the alignment is unknown.
C19_FillAlign ==
    (ParseDone /\ IsSpecArgument /\ parsed.ok)
    => /\ Len(parsed.pieces) = 1
       /\ parsed.pieces[1].kind = "Argument"
       /\ parsed.pieces[1].arg.scan.fill = ResolvedFill(SpecText)
       /\ parsed.pieces[1].arg.scan.align = ResolvedAlign(SpecText)

\* The offset of the brace that closes an argument opened before offset i,
\* -1 when there is none; with esc a brace after a backslash does not count.
RECURSIVE ClosingBrace(_, _, _)
ClosingBrace(s, i, esc) ==
    IF i >= Len(s) THEN -1
    ELSE IF s[i + 1] = 125 THEN i
    ELSE IF esc /\ s[i + 1] = 92 THEN ClosingBrace(s, i + 2, esc)
    ELSE ClosingBrace(s, i + 1, esc)

\* From offset i on, outside any argument, s holds an unescaped '{' that no
\* later '}' closes, or an unescaped '}' that closes no open argument.
RECURSIVE BraceDefect(_, _, _)
BraceDefect(s, i, esc) ==
    IF i >= Len(s) THEN FALSE
    ELSE IF s[i + 1] = 92 THEN BraceDefect(s, i + 2, esc)
    ELSE IF s[i + 1] = 125 THEN TRUE
    ELSE IF s[i + 1] = 123
    THEN \/ ClosingBrace(s, i + 1, esc) < 0
         \/ BraceDefect(s, ClosingBrace(s, i + 1, esc) + 1, esc)
    ELSE BraceDefect(s, i + 1, esc)

\* From offset i on every brace of s follows an escaping backslash, and no
\* backslash is left without a codepoint to escape.
RECURSIVE BracesEscaped(_, _)
BracesEscaped(s, i) ==
    IF i >= Len(s) THEN TRUE
    ELSE IF s[i + 1] = 92 THEN i + 1 < Len(s) /\ BracesEscaped(s, i + 2)
    ELSE s[i + 1] \notin {123, 125} /\ BracesEscaped(s, i + 1)

\* C20: a format string with an unescaped '{' that no later '}' closes, or
\* with an unescaped '}' that closes no open argument, is a parse error with
\* no pieces (whether or not a backslash inside an argument is taken to escape
\* a brace); a string whose braces are all escaped parses, and to no argument.
C20_BraceErrors ==
    ParseDone
    => /\ (\E esc \in BOOLEAN : BraceDefect(fmt, 0, esc))
          => (~parsed.ok /\ parsed.pieces = <<>>)
       /\ BracesEscaped(fmt, 0)
          => /\ parsed.ok
             /\ \A k \in 1..Len(parsed.pieces) :
                  parsed.pieces[k].kind # "Argument"

\* An escaped '}', then an unescaped '{' that nothing closes.
C20_Witness ==
    /\ ParseDone
    /\ Len(fmt) > 3
    /\ fmt[1] = 92
    /\ fmt[2] = 125
    /\ fmt[3] = 123
    /\ ClosingBrace(fmt, 3, FALSE) < 0
    /\ BraceDefect(fmt, 0, TRUE)
    /\ ~parsed.ok
    /\ parsed.err = "a premature end of argument"

\* ---- claims on escapes and whitespace ----
\* The text of s from offset i on with each escaping backslash removed and
\* each unescaped whitespace codepoint dropped.
RECURSIVE Unescape(_, _)
Unescape(s, i) ==
    IF i >= Len(s) THEN <<>>
    ELSE IF s[i + 1] = 92
    THEN (IF i + 1 < Len(s) THEN <<s[i + 2]>> ELSE <<>>) \o Unescape(s, i + 2)
    ELSE IF s[i + 1] \in {32, 9, 13, 10} THEN Unescape(s, i + 1)
    ELSE <<s[i + 1]>> \o Unescape(s, i + 1)

\* The texts of the literal pieces, concatenated.
RECURSIVE LiteralText(_)
LiteralText(ps) ==
    IF ps = <<>> THEN <<>>
    ELSE (IF Head(ps).kind = "String" THEN Head(ps).text ELSE <<>>)
         \o LiteralText(Tail(ps))

\* The number of backslashes s ends with.
RECURSIVE TrailingBackslashes(_)
TrailingBackslashes(s) ==
    IF s # <<>> /\ s[Len(s)] = 92
    THEN 1 + TrailingBackslashes(SubSeq(s, 1, Len(s) - 1))
    ELSE 0

\* A whitespace codepoint of s that no backslash escapes, from offset i on.
RECURSIVE UnescapedWhitespace(_, _)
UnescapedWhitespace(s, i) ==
    IF i >= Len(s) THEN FALSE
    ELSE IF s[i + 1] = 92 THEN UnescapedWhitespace(s, i + 2)
    ELSE s[i + 1] \in {32, 9, 13, 10} \/ UnescapedWhitespace(s, i + 1)

\* s holds a whitespace codepoint that is none of space, tab, CR, LF.
OtherWhitespace(s) ==
    \E i \in 1..Len(s) : is_whitespace(s[i]) /\ s[i] \notin {32, 9, 13, 10}

\* C21: a format string whose braces are all escaped parses to pieces that
\* are no arguments; without unescaped whitespace all pieces are literals and
\* their texts, concatenated, are the input with each escaping backslash
\* removed, so an escaped brace, backslash or whitespace is literal text (with
\* unescaped spaces in the input too, as long as its only whitespace is space,
\* tab, CR, LF); an input ending in an unescaped backslash is a parse error.
C21_Escapes ==
    ParseDone
    => /\ BracesEscaped(fmt, 0)
          => /\ parsed.ok
             /\ (~UnescapedWhitespace(fmt, 0) \/ ~OtherWhitespace(fmt))
                => LiteralText(parsed.pieces) = Unescape(fmt, 0)
             /\ \A k \in 1..Len(parsed.pieces) :
                  /\ parsed.pieces[k].kind # "Argument"
                  /\ ~UnescapedWhitespace(fmt, 0)
                     => parsed.pieces[k].kind = "String"
       /\ TrailingBackslashes(fmt) % 2 = 1
          => (~parsed.ok /\ parsed.pieces = <<>>)

\* "\{\ " and one more codepoint: an escaped brace and an escaped space.
C21_Witness ==
    /\ ParseDone
    /\ Len(fmt) = 5
    /\ SubSeq(fmt, 1, 4) = <<92, 123, 92, 32>>
    /\ parsed.ok
    /\ LiteralText(parsed.pieces) = <<123, 32, fmt[5]>>

\* The number of maximal runs of unescaped space/tab/CR/LF in s from offset
\* i on; inrun tells that the codepoint before offset i belongs to a run.
RECURSIVE WhitespaceRuns(_, _, _)
WhitespaceRuns(s, i, inrun) ==
    IF i >= Len(s) THEN 0
    ELSE IF s[i + 1] = 92 THEN WhitespaceRuns(s, i + 2, FALSE)
    ELSE IF s[i + 1] \in {32, 9, 13, 10}
    THEN (IF inrun THEN 0 ELSE 1) + WhitespaceRuns(s, i + 1, TRUE)
    ELSE WhitespaceRuns(s, i + 1, FALSE)

RECURSIVE WhitespacePieces(_)
WhitespacePieces(ps) ==
    IF ps = <<>> THEN 0
    ELSE (IF Head(ps).kind = "Whitespace" THEN 1 ELSE 0)
         + WhitespacePieces(Tail(ps))

\* No two adjacent Whitespace pieces and no empty literal piece.
Collapsed(ps) ==
    /\ \A k \in 1..(Len(ps) - 1) :
         ~(ps[k].kind = "Whitespace" /\ ps[k + 1].kind = "Whitespace")
    /\ \A k \in 1..Len(ps) : ps[k].kind = "String" => ps[k].text # <<>>

\* C22: a format string without arguments yields one Whitespace piece for
\* each maximal run of unescaped space/tab/CR/LF, and the pieces of every
\* format string hold no two adjacent Whitespace pieces and no empty literal.
C22_WhitespaceCollapse ==
    (ParseDone /\ parsed.ok)
    => /\ Collapsed(parsed.pieces)
       /\ BracesEscaped(fmt, 0)
          => WhitespacePieces(parsed.pieces) = WhitespaceRuns(fmt, 0, FALSE)

\* ---- claims on the scan spec and the position ----
\* The spec of the argument holds no alignment symbol (so its first
\* codepoints are read as flags, never as a fill).
NoAlignSymbol == \A i \in 1..Len(SpecText) : SpecText[i] \notin AlignSymbols

\* The spec starts with a sign or '#' and goes on, after optional whitespace,
\* with a sign; or it starts with '#' and goes on with another '#'.
SecondFlag ==
    /\ SpecText # <<>>
    /\ SpecText[1] \in {43, 45, 35}
    /\ str_trim_left(Tail(SpecText)) # <<>>
    /\ \/ str_trim_left(Tail(SpecText))[1] \in {43, 45}
       \/ SpecText[1] = 35 /\ str_trim_left(Tail(SpecText))[1] = 35

\* C23: no ScanSpec returned by parse_fmt has both SignPlus and SignMinus
\* set, and a spec in which a sign follows a sign or a '#' (or '#' a '#') is
\* a parse error.
C23_SignFlags ==
    ParseDone
    => /\ \A k \in 1..Len(parsed.pieces) :
            ~(/\ HasFlag(parsed.pieces[k].arg.scan, FlagSignPlus)
              /\ HasFlag(parsed.pieces[k].arg.scan, FlagSignMinus))
       /\ (IsSpecArgument /\ NoAlignSymbol /\ SecondFlag) => ~parsed.ok

\* "{:+-a}" is rejected.
C23_Witness ==
    /\ ParseDone
    /\ IsSpecArgument
    /\ SpecText = <<43, 45, 97>>
    /\ ~parsed.ok
    /\ parsed.err = "invalid scan spec"

\* The format string is one argument "{" text "}" and nothing else.
IsArgument ==
    /\ Len(fmt) >= 2
    /\ fmt[1] = 123
    /\ find(fmt, {125}) = Len(fmt) - 1

\* The text between the braces, left-trimmed.
ArgText == str_trim_left(SubSeq(fmt, 2, Len(fmt) - 1))

\* The length of the identifier s starts with, 0 when it starts with none.
RECURSIVE IdentRun(_, _)
IdentRun(s, k) ==
    IF k <= Len(s) /\ (is_XID_continue(s[k]) /\ (k > 1 \/ is_XID_start(s[k])))
    THEN 1 + IdentRun(s, k + 1) ELSE 0

\* The length of the position token s starts with: '*', a digit run or an
\* identifier; 0 when s starts with none.
PosTokenLen(s) ==
    IF s = <<>> THEN 0
    ELSE IF s[1] = 42 THEN 1
    ELSE IF IsDigit(s[1]) THEN DigitRun(s, 1)
    ELSE IdentRun(s, 1)

\* What follows the position token, left-trimmed.
AfterPos == str_trim_left(slice_from(ArgText, PosTokenLen(ArgText)))

\* The argument with the whitespace before and after its position removed.
Unspaced ==
    <<123>> \o slice_to(ArgText, PosTokenLen(ArgText)) \o AfterPos \o <<125>>

\* C24: an argument that starts with a position token, and either ends after
\* it or goes on with a ':' scan-spec, parses to the same result with and
\* without whitespace before and after the token.
C24_PositionWhitespace ==
    (/\ ParseDone
     /\ IsArgument
     /\ PosTokenLen(ArgText) > 0
     /\ (AfterPos = <<>> \/ AfterPos[1] = 58))
    => parsed = parse_fmt(Unspaced)

\* ---- claims on the paths of fill_request ----
\* What the source has not had consumed: its next views.
SourceAhead ==
    IF index < Len(calls)
    THEN slice_from(calls[index + 1], pos)
         \o Concat(SubSeq(calls, index + 2, Len(calls)))
    ELSE <<>>

\* The bytes the last fill_request appended to the accumulation buffer (its
\* first branch clears the buffer before it appends).
Appended ==
    IF last.pre.savedpos = Len(last.pre.saved) THEN Len(saved)
    ELSE Len(saved) - Len(last.pre.saved)

\* C25: when fill_request returns, the source has had consumed every byte the
\* call appended to the accumulation buffer, and (the bytes of the stream
\* being distinct) no byte held in the accumulation buffer is in a view the
\* source has yet to give.
C25_Absorbed ==
    (last.op = "fill_request" /\ last.status \in {"Ok", "Err"})
    => /\ SrcOffset(index, pos)
            = SrcOffset(last.pre.index, last.pre.pos) + Appended
       /\ \A i \in 1..Len(saved) : \A j \in 1..Len(SourceAhead) :
            saved[i] # SourceAhead[j]

\* The state the last operation started from.
PreSt == [St EXCEPT !.index = last.pre.index, !.pos = last.pre.pos,
                    !.saved = last.pre.saved, !.savedpos = last.pre.savedpos,
                    !.savederr = last.pre.savederr,
                    !.consumed = last.pre.consumed, !.srcerr = last.pre.srcerr]

\* The last operation was a fill_request that met the accumulation buffer
\* fully consumed, no recorded error, and a source whose next view has at
\* least the requested length.
FastPath ==
    /\ last.op = "fill_request"
    /\ last.pre.savedpos = Len(last.pre.saved)
    /\ ~last.pre.savederr
    /\ Sim_fill(PreSt).ok
    /\ Len(Sim_fill(PreSt).buf) >= last.amt

\* The last operation was a consume that met the accumulation buffer fully
\* consumed, with an amount the source's current chunk holds.
ForwardedConsume ==
    /\ last.op = "consume"
    /\ last.pre.savedpos = Len(last.pre.saved)
    /\ last.status = "Ok"

FastPathFrame ==
    /\ saved = last.pre.saved
    /\ savedpos = last.pre.savedpos
    /\ savederr = last.pre.savederr
    /\ SrcOffset(index, pos) = SrcOffset(last.pre.index, last.pre.pos)

ConsumeForwarded ==
    ForwardedConsume
    => /\ saved = last.pre.saved
       /\ savedpos = last.pre.savedpos
       /\ index = last.pre.index
       /\ pos = last.pre.pos + last.amt

\* C26 as stated: on the fast path fill_request returns exactly the source's
\* next view and leaves the accumulation buffer, the cursor and the source's
\* position unchanged; a consume that follows is forwarded to the source.
C26_AsStated ==
    /\ FastPath => /\ last.status = "Ok"
                   /\ last.buf = Sim_fill(PreSt).buf
                   /\ FastPathFrame
    /\ ConsumeForwarded

\* C26: on the fast path fill_request leaves the accumulation buffer, the
\* cursor, the error slot and the source's position unchanged and returns
\* what the source's fill, called a second time, returns: the source's next
\* view when that view is not empty, else the view after the empty one or the
\* source's error; a consume that follows is forwarded to the source.
C26_FastPath ==
    /\ FastPath
       => /\ FastPathFrame
          /\ (last.status = "Ok") = Sim_fill(Sim_fill(PreSt).st).ok
          /\ last.buf = Sim_fill(Sim_fill(PreSt).st).buf
          /\ Sim_fill(PreSt).buf # <<>>
             => (last.status = "Ok" /\ last.buf = Sim_fill(PreSt).buf)
    /\ ConsumeForwarded

\* The fast path taken with bytes requested, after the accumulation buffer
\* had been used and read to its end.
C26_Witness ==
    /\ FastPath
    /\ last.amt >= 1
    /\ last.status = "Ok"
    /\ Len(last.buf) >= 2
    /\ saved # <<>>
    /\ savedpos = Len(saved)

\* ---- claims on the assertions of the scanners ----
\* C27: the string capture, run first on a fresh buffer over a non-empty
\* source, examines the first chunk as its first view; the next request
\* drop_incomplete_utf8_suffix computes for it is greater than its length,
\* and the capture does not abort.
C27_RequestGrows ==
    (/\ last.op = "scan_string" /\ FirstOp
     /\ last.align = "AlignUnknown"
     /\ calls # <<>>)
    => /\ drop_incomplete_utf8_suffix(calls[1])[2] > Len(calls[1])
       /\ last.status # "Panic"

\* C28: no consume the LookaheadBuffer issues to its source asks for more
\* than is left of the view the source returned from its most recent fill
\* (the callers of the model consume at most the view they were given last).
C28_SourceContract == ~overrun

\* A consume of a whole view of two bytes or more, forwarded to the source.
C28_Witness ==
    /\ last.op = "consume"
    /\ last.status = "Ok"
    /\ last.amt >= 2
    /\ last.pre.savedpos = Len(last.pre.saved)
    /\ pos = last.pre.pos + last.amt
    /\ srcview = 0
    /\ ~overrun

\* C29: after fill_request(n) returned the view V, and with no consume in
\* between, a fill_request(m) with m > n returns a view that has V as a
\* prefix, and a fill_request(i) for a span i within V (the re-request of the
\* scanners) returns a view of at least i bytes; after a view that is not
\* empty neither request returns an error.
C29_GrowByExtension ==
    (last.op = "fill_request" /\ last.status = "Ok")
    => /\ \A m \in (last.amt + 1)..(MaxAmt + 1) :
            /\ fill_request(St, m).ok
               => IsPrefix(last.buf, fill_request(St, m).buf)
            /\ last.buf # <<>> => fill_request(St, m).ok
       /\ \A i \in 0..Len(last.buf) :
            /\ fill_request(St, i).ok => Len(fill_request(St, i).buf) >= i
            /\ last.buf # <<>> => fill_request(St, i).ok

\* A view of the unread part of the accumulation buffer that a larger
\* request extends with bytes of the source.
C29_Witness ==
    /\ last.op = "fill_request" /\ last.status = "Ok"
    /\ last.buf # <<>>
    /\ savedpos > 0
    /\ last.amt < MaxAmt
    /\ fill_request(St, MaxAmt).ok
    /\ Len(fill_request(St, MaxAmt).buf) > Len(last.buf)
    /\ IsPrefix(last.buf, fill_request(St, MaxAmt).buf)

\* ---- claims on multi-byte pads ----
\* c encodings of the pad, one after the other.
RECURSIVE Repeat(_, _)
Repeat(padbuf, c) == IF c = 0 THEN <<>> ELSE padbuf \o Repeat(padbuf, c - 1)

\* C30: read_pad_char with a multi-byte pad (the caller has consumed a prefix
\* of the stream) consumes whole encodings of the pad only, taken from the
\* stream at the caller's position, and the count it returns is their number.
C30_WholePads ==
    (/\ last.op = "read_pad_char"
     /\ last.fill >= 128
     /\ last.status \in {"Ok", "Err"}
     /\ IsPrefix(last.pre.consumed, Stream))
    => /\ Len(Taken) % Len(encode_utf8(last.fill)) = 0
       /\ Taken = Repeat(encode_utf8(last.fill),
                         Len(Taken) \div Len(encode_utf8(last.fill)))
       /\ IsPrefix(Taken, Ahead)
       /\ last.status = "Ok"
          => last.val * Len(encode_utf8(last.fill)) = Len(Taken)

====
